---- MODULE Spec2Model ----
(***************************************************************************)
(* tc_translate: the TerminologyManager of                                 *)
(* tc_translate/terminology_manager.py.                                    *)
(*                                                                         *)
(* A Python str is a sequence of one-character strings (<<"a", " ", "b">>  *)
(* is "a b"); domain names, language codes and file-name segments are TLA+ *)
(* strings.  A dict is the sequence of its entries in insertion order.     *)
(* A CSV cell is a sequence of length at most one: <<v>> holds v, <<>> is  *)
(* a missing value (pandas reads it as NaN).                               *)
(***************************************************************************)
EXTENDS Integers, Sequences, FiniteSets, TLC

VARIABLES
    dir,                    \* the terminologies directory on disk
    status,                 \* "new" | "loaded" | "failed": the constructor's progress
    load_error,             \* the exception the constructor raised, <<>> if none
    terms_by_domain_lang,   \* self.terms_by_domain_lang, in insertion order
    domains_languages,      \* self.domains_languages
    calls                   \* per caller: the state of its translate round-trip

vars == <<dir, status, load_error, terms_by_domain_lang, domains_languages, calls>>

(***************************************************************************)
(* Characters and strings                                                  *)
(***************************************************************************)
LowerLetters == {"a", "b", "n", "x", "y"}
UpperLetters == {"A", "B", "X", "Y"}
Digits == {"0", "1", "2", "3", "4", "5", "6", "7", "8", "9"}
Whitespace == {" "}

\* the characters the regular expression class \w holds
IsWordChar(c) == c \in LowerLetters \cup UpperLetters \cup Digits \cup {"_"}

\* str.lower() of one character
LowerChar(c) ==
    CASE c = "A" -> "a"
      [] c = "B" -> "b"
      [] c = "X" -> "x"
      [] c = "Y" -> "y"
      [] OTHER -> c

\* str.lower()
Lower(s) == [i \in 1..Len(s) |-> LowerChar(s[i])]

RECURSIVE LStrip(_)
LStrip(s) == IF s # <<>> /\ Head(s) \in Whitespace THEN LStrip(Tail(s)) ELSE s

RECURSIVE RStrip(_)
RStrip(s) ==
    IF s # <<>> /\ s[Len(s)] \in Whitespace THEN RStrip(SubSeq(s, 1, Len(s) - 1)) ELSE s

\* str.strip()
Strip(s) == RStrip(LStrip(s))

DigitChar(d) ==
    CASE d = 0 -> "0" [] d = 1 -> "1" [] d = 2 -> "2" [] d = 3 -> "3" [] d = 4 -> "4"
      [] d = 5 -> "5" [] d = 6 -> "6" [] d = 7 -> "7" [] d = 8 -> "8" [] d = 9 -> "9"

\* str(n) of a non-negative int
RECURSIVE IntToStr(_)
IntToStr(n) == IF n < 10 THEN <<DigitChar(n)>> ELSE IntToStr(n \div 10) \o <<DigitChar(n % 10)>>

\* str(float('nan'))
NanStr == <<"n", "a", "n">>

\* str(cell) of a text cell as pandas hands it over
StrCell(cell) == IF cell = <<>> THEN NanStr ELSE cell[1]

(***************************************************************************)
(* re.compile(r'\b' + re.escape(term) + r'\b', re.IGNORECASE).sub          *)
(***************************************************************************)
\* \b between s[i] and s[i+1] (i in 0..Len(s)); outside the string counts as non-word
WordBoundary(s, i) ==
    LET before == i >= 1 /\ IsWordChar(s[i])
        after == i + 1 <= Len(s) /\ IsWordChar(s[i + 1])
    IN before # after

\* the pattern of term t matches in s starting at position i (1..Len(s)+1)
MatchesAt(s, t, i) ==
    /\ i + Len(t) - 1 <= Len(s)
    /\ WordBoundary(s, i - 1)
    /\ \A k \in 1..Len(t) : LowerChar(s[i + k - 1]) = LowerChar(t[k])
    /\ WordBoundary(s, i + Len(t) - 1)

\* the pattern of term t matches somewhere in s
HasMatch(s, t) == \E i \in 1..(Len(s) + 1) : MatchesAt(s, t, i)

\* The working text of preprocess_text carries, beside each character ch, where
\* it comes from: from is the set of input positions it stands for and by is 0
\* for a character of the input, or the rank in sorted_terms of the term whose
\* placeholder it belongs to.  The program sees Chars of it.
Tagged(text) == [i \in 1..Len(text) |-> [ch |-> text[i], from |-> {i}, by |-> 0]]

Chars(ts) == [i \in 1..Len(ts) |-> ts[i].ch]

\* the return value of replace_with_placeholder for the match ts[i..j] of term
\* number k
Replacement(ts, i, j, repl, k) ==
    [n \in 1..Len(repl) |->
        [ch |-> repl[n], from |-> UNION {ts[m].from : m \in i..j}, by |-> k]]

\* pattern.sub(replace_with_placeholder, s): leftmost non-overlapping matches,
\* scanning from position i; s is Chars(ts)
RECURSIVE SubFrom(_, _, _, _, _, _)
SubFrom(ts, s, t, repl, k, i) ==
    LET here == IF i <= Len(ts) THEN <<ts[i]>> ELSE <<>>
    IN IF i > Len(ts) + 1 THEN <<>>
       ELSE IF MatchesAt(s, t, i)
            THEN IF Len(t) = 0
                 THEN Replacement(ts, i, i - 1, repl, k) \o here
                          \o SubFrom(ts, s, t, repl, k, i + 1)
                 ELSE Replacement(ts, i, i + Len(t) - 1, repl, k)
                          \o SubFrom(ts, s, t, repl, k, i + Len(t))
            ELSE here \o SubFrom(ts, s, t, repl, k, i + 1)

RegexSub(ts, t, repl, k) == SubFrom(ts, Chars(ts), t, repl, k, 1)

(***************************************************************************)
(* str.replace(old, new)                                                   *)
(***************************************************************************)
OccursAt(s, old, i) ==
    /\ i + Len(old) - 1 <= Len(s)
    /\ \A k \in 1..Len(old) : s[i + k - 1] = old[k]

RECURSIVE ReplaceFrom(_, _, _, _)
ReplaceFrom(s, old, new, i) ==
    LET here == IF i <= Len(s) THEN <<s[i]>> ELSE <<>>
    IN IF i > Len(s) + 1 THEN <<>>
       ELSE IF OccursAt(s, old, i)
            THEN IF Len(old) = 0
                 THEN new \o here \o ReplaceFrom(s, old, new, i + 1)
                 ELSE new \o ReplaceFrom(s, old, new, i + Len(old))
            ELSE here \o ReplaceFrom(s, old, new, i + 1)

StrReplace(s, old, new) == ReplaceFrom(s, old, new, 1)

(***************************************************************************)
(* dict: a sequence of [key, value] entries in insertion order             *)
(***************************************************************************)
DictHas(d, k) == \E i \in 1..Len(d) : d[i].key = k

DictGet(d, k) == d[CHOOSE i \in 1..Len(d) : d[i].key = k].value

\* d[k] = v: an existing key keeps its position
DictPut(d, k, v) ==
    IF DictHas(d, k)
    THEN [i \in 1..Len(d) |-> IF d[i].key = k THEN [key |-> k, value |-> v] ELSE d[i]]
    ELSE Append(d, [key |-> k, value |-> v])

DictKeys(d) == {d[i].key : i \in 1..Len(d)}

DictValues(d) == [i \in 1..Len(d) |-> d[i].value]

(***************************************************************************)
(* language_codes.convert_lang_code(code, to_google=True)                  *)
(***************************************************************************)
\* LANGUAGE_CODE_MAPPING: 3-letter code -> 2-letter code of the provider
LANGUAGE_CODE_MAPPING == [twi |-> "ak", fra |-> "fr"]

convert_lang_code(code) ==
    IF Len(code) = 2 THEN code
    ELSE IF code \in DOMAIN LANGUAGE_CODE_MAPPING THEN LANGUAGE_CODE_MAPPING[code]
    ELSE code

(***************************************************************************)
(* _load_terminologies                                                     *)
(***************************************************************************)
RECURSIVE Join(_)
Join(segs) == IF segs = <<>> THEN "" ELSE Head(segs) \o Join(Tail(segs))

\* the positions at which r'(.+)_terms_(.+)\.csv$' can split a file name: both
\* groups hold at least one segment and the name ends in ".csv"
SplitPoints(name) ==
    {i \in 2..(Len(name) - 2) : name[i] = "_terms_" /\ name[Len(name)] = ".csv"}

\* pattern.match(filename) is not None
FilenameMatches(name) == SplitPoints(name) # {}

\* match.groups(): the first group is greedy, so the last split point is taken
FilenameGroups(name) ==
    LET i == CHOOSE j \in SplitPoints(name) : \A k \in SplitPoints(name) : k <= j
    IN [domain |-> Join(SubSeq(name, 1, i - 1)),
        language |-> Join(SubSeq(name, i + 1, Len(name) - 1))]

\* int(row['id']) raises ValueError on a missing value
IdRaises(row) == row.id = <<>>

\* a Term whose text is stored as the CSV holds it
MakeTermVerbatim(row, domain, language) ==
    [id |-> row.id[1],
     term |-> StrCell(row.term),
     translation |-> StrCell(row.translation),
     domain |-> domain,
     language |-> language,
     google_lang_code |-> convert_lang_code(language)]

\* Term(...) of one row
MakeTerm(row, domain, language) ==
    [id |-> row.id[1],
     term |-> Strip(Lower(StrCell(row.term))),
     translation |-> StrCell(row.translation),
     domain |-> domain,
     language |-> language,
     google_lang_code |-> convert_lang_code(language)]

\* the loop over df.iterrows(): terms_dict[term.term] = term
RECURSIVE LoadRows(_, _, _, _)
LoadRows(rows, domain, language, terms_dict) ==
    IF rows = <<>> THEN terms_dict
    ELSE LET term == MakeTerm(Head(rows), domain, language)
         IN LoadRows(Tail(rows), domain, language, DictPut(terms_dict, term.term, term))

\* the body of the loop over os.listdir for one file; st is the manager so far
LoadFile(st, file) ==
    IF st.failed \/ ~FilenameMatches(file.name) THEN st
    ELSE LET g == FilenameGroups(file.name)
             pair == <<g.domain, g.language>>
             seen == [st EXCEPT !.domains_languages = @ \cup {pair}]
         IN IF \E i \in 1..Len(file.rows) : IdRaises(file.rows[i])
            THEN [seen EXCEPT !.failed = TRUE,
                              !.error = <<[type |-> "ValueError", source |-> <<>>, row |-> <<>>]>>]
            ELSE [seen EXCEPT !.terms_by_domain_lang =
                                  DictPut(@, pair, LoadRows(file.rows, g.domain, g.language, <<>>))]

RECURSIVE LoadFiles(_, _)
LoadFiles(st, listing) ==
    IF listing = <<>> THEN st ELSE LoadFiles(LoadFile(st, Head(listing)), Tail(listing))

\* the manager as __init__ leaves it before _load_terminologies runs
EmptyManager ==
    [failed |-> FALSE, error |-> <<>>, terms_by_domain_lang |-> <<>>, domains_languages |-> {}]

_load_terminologies(exists, listing) ==
    IF ~exists
    THEN [EmptyManager EXCEPT !.failed = TRUE,
              !.error = <<[type |-> "FileNotFoundError", source |-> <<>>, row |-> <<>>]>>]
    ELSE LoadFiles(EmptyManager, listing)

\* os.listdir returns the files in arbitrary order
Listings(files) ==
    {l \in [1..Cardinality(files) -> files] : \A i, j \in 1..Cardinality(files) : l[i] = l[j] => i = j}

(***************************************************************************)
(* Accessors                                                               *)
(***************************************************************************)
\* sorted(self.domains_languages), as the set it enumerates
get_available_domains_languages(dls) == dls

\* sorted({d for d, _ in self.domains_languages}), as the set it enumerates
get_domains(dls) == {p[1] : p \in dls}

\* the first entry of index, in iteration order, of this domain whose language
\* normalizes to code; <<>> when there is none
FirstNormalizedTo(index, domain, code) ==
    LET hits == {i \in 1..Len(index) :
                     /\ index[i].key[1] = domain
                     /\ convert_lang_code(index[i].key[2]) = code}
    IN IF hits = {} THEN <<>>
       ELSE <<index[CHOOSE i \in hits : \A j \in hits : i <= j].value>>

get_terms_for_domain_lang(index, domain, language) ==
    IF DictHas(index, <<domain, language>>) THEN DictGet(index, <<domain, language>>)
    ELSE LET two == IF Len(language) = 2
                    THEN FirstNormalizedTo(index, domain, language) ELSE <<>>
             three == IF Len(language) = 3
                      THEN FirstNormalizedTo(index, domain, convert_lang_code(language))
                      ELSE <<>>
         IN IF two # <<>> THEN two[1]
            ELSE IF three # <<>> THEN three[1]
            ELSE <<>>

(***************************************************************************)
(* preprocess_text                                                         *)
(***************************************************************************)
\* f"<{term_obj.id}>"
Placeholder(id) == <<"<">> \o IntToStr(id) \o <<">">>

\* position of the first longest term of a non-empty list
FirstLongest(terms) ==
    CHOOSE i \in 1..Len(terms) :
        /\ \A j \in 1..Len(terms) : Len(terms[j].term) <= Len(terms[i].term)
        /\ \A j \in 1..(i - 1) : Len(terms[j].term) < Len(terms[i].term)

Without(seq, i) == SubSeq(seq, 1, i - 1) \o SubSeq(seq, i + 1, Len(seq))

\* sorted(terms, key=lambda x: len(x.term), reverse=True): stable, longest first
RECURSIVE sorted_terms(_)
sorted_terms(terms) ==
    IF terms = <<>> THEN <<>>
    ELSE LET i == FirstLongest(terms)
         IN <<terms[i]>> \o sorted_terms(Without(terms, i))

\* one iteration of the loop over sorted_terms, for the term of rank k; acc is
\* [text, replacements].  replace_with_placeholder runs once per match, so the
\* entry is written when the pattern matches at least once
SubstituteTerm(acc, term_obj, k) ==
    LET placeholder == Placeholder(term_obj.id)
    IN [text |-> RegexSub(acc.text, term_obj.term, placeholder, k),
        replacements |-> IF HasMatch(Chars(acc.text), term_obj.term)
                         THEN DictPut(acc.replacements, placeholder, term_obj)
                         ELSE acc.replacements]

\* the loop over sorted_terms, from rank k on
RECURSIVE SubstituteAll(_, _, _)
SubstituteAll(acc, terms, k) ==
    IF k > Len(terms) THEN acc
    ELSE SubstituteAll(SubstituteTerm(acc, terms[k], k), terms, k + 1)

NoError == <<>>

\* the error with the languages of every domain listed
LookupErrorAllLanguages(dls, domain, language) ==
    IF domain \in get_domains(dls)
    THEN [kind |-> "NoTerminologyForLanguage", domain |-> domain, language |-> language,
          available |-> {p[2] : p \in dls}]
    ELSE [kind |-> "UnknownDomain", domain |-> domain, language |-> language,
          available |-> get_domains(dls)]

\* the ValueError raised when the resolved term set is empty
LookupError(dls, domain, language) ==
    IF domain \in get_domains(dls)
    THEN [kind |-> "NoTerminologyForLanguage", domain |-> domain, language |-> language,
          available |-> {p[2] : p \in {q \in dls : q[1] = domain}}]
    ELSE [kind |-> "UnknownDomain", domain |-> domain, language |-> language,
          available |-> get_domains(dls)]

\* the returned (preprocessed_text, replacements), or the error raised; tagged
\* is the returned text with the origin of its characters
preprocess_text(index, dls, text, domain, language) ==
    LET terms_dict == get_terms_for_domain_lang(index, domain, language)
    IN IF terms_dict = <<>>
       THEN [error |-> <<LookupError(dls, domain, language)>>, text |-> <<>>,
             tagged |-> <<>>, replacements |-> <<>>]
       ELSE LET out == SubstituteAll([text |-> Tagged(text), replacements |-> <<>>],
                                     sorted_terms(DictValues(terms_dict)), 1)
            IN [error |-> NoError, text |-> Chars(out.text), tagged |-> out.text,
                replacements |-> out.replacements]

(***************************************************************************)
(* postprocess_text                                                        *)
(***************************************************************************)
\* the loop over replacements.items(), in the order entries lists them
RECURSIVE ReplaceAll(_, _)
ReplaceAll(text, entries) ==
    IF entries = <<>> THEN text
    ELSE ReplaceAll(StrReplace(text, Head(entries).key, Head(entries).value.translation),
                    Tail(entries))

postprocess_text(text, replacements) == ReplaceAll(text, replacements)

(***************************************************************************)
(* Inputs                                                                  *)
(***************************************************************************)
MaxTextLen == 3
MaxRows == 2
MaxCallers == 2

StringsUpTo(alphabet, n) == UNION {[1..k -> alphabet] : k \in 0..n}

SeqsUpTo(S, n) == UNION {[1..k -> S] : k \in 0..n}

Row(id, term, translation) == [id |-> id, term |-> term, translation |-> translation]

TermsFile(domain, language, rows) ==
    [name |-> <<domain, "_terms_", language, ".csv">>, rows |-> rows]

Directory(files) == [exists |-> TRUE, files |-> files]

\* the CSV rows the loader is run on: well-formed rows (one with upper case and
\* surrounding blanks, two with the same id) and rows with missing values
RowPool ==
    {Row(<<1>>, <<<<"a">>>>, <<<<"X">>>>),
     Row(<<2>>, <<<<" ", "A">>>>, <<<<"Y">>>>),
     Row(<<1>>, <<<<"b">>>>, <<<<"Y">>>>),
     Row(<<>>, <<<<"b">>>>, <<<<"X">>>>),
     Row(<<3>>, <<>>, <<>>)}

RowLists == SeqsUpTo(RowPool, MaxRows)

\* files that are not terminology sources
OtherFiles ==
    {[name |-> <<"agric", "_terms_", "twi", ".txt">>,
      rows |-> <<Row(<<1>>, <<<<"a">>>>, <<<<"X">>>>)>>],
     [name |-> <<"_terms_", "twi", ".csv">>,
      rows |-> <<Row(<<1>>, <<<<"a">>>>, <<<<"X">>>>)>>]}

\* directories for the loader: a twi and an ak source of one domain, each
\* absent or holding any rows of the pool, with or without the other files
LoadDirs ==
    {[exists |-> FALSE, files |-> {}]} \cup
    {Directory(twi \cup ak \cup other) :
        twi \in {{}} \cup {{TermsFile("agric", "twi", rows)} : rows \in RowLists},
        ak \in {{}} \cup {{TermsFile("agric", "ak", rows)} : rows \in RowLists},
        other \in {{}, OtherFiles}}

\* one source agric_terms_twi.csv
Bucket(rows) == Directory({TermsFile("agric", "twi", rows)})

\* directories for the substitution engine
ScenarioDirs ==
    {Bucket(<<Row(<<1>>, <<<<"a", " ", "b">>>>, <<<<"X">>>>),
              Row(<<2>>, <<<<"a">>>>, <<<<"Y">>>>)>>),
     Bucket(<<Row(<<1>>, <<<<"1", " ", "b">>>>, <<<<"X">>>>),
              Row(<<2>>, <<<<"1">>>>, <<<<"Y">>>>)>>),
     Bucket(<<Row(<<1>>, <<<<"a", "+">>>>, <<<<"X">>>>),
              Row(<<2>>, <<<<"b">>>>, <<<<"Y">>>>)>>),
     Bucket(<<Row(<<1>>, <<<<"a">>>>, <<<<"<", "2", ">">>>>),
              Row(<<2>>, <<<<"b">>>>, <<<<"Y">>>>)>>),
     Bucket(<<Row(<<1>>, <<<<"a">>>>, <<<<"X">>>>),
              Row(<<1>>, <<<<"b">>>>, <<<<"Y">>>>)>>)}

TextAlphabet == {"a", "A", "b", " ", "1", "<", ">", "+"}

Texts == StringsUpTo(TextAlphabet, MaxTextLen)

\* directories, texts and requests for concurrent callers
ConcDirs ==
    {Bucket(<<Row(<<1>>, <<<<"a", " ", "b">>>>, <<<<"X">>>>),
              Row(<<2>>, <<<<"a">>>>, <<<<"Y">>>>)>>),
     Directory({TermsFile("agric", "twi", <<Row(<<1>>, <<<<"a">>>>, <<<<"X">>>>)>>),
                TermsFile("agric", "ak", <<Row(<<1>>, <<<<"b">>>>, <<<<"Y">>>>)>>)}),
     Directory({TermsFile("agric", "twi", <<>>),
                TermsFile("health", "fra", <<Row(<<1>>, <<<<"a">>>>, <<<<"X">>>>)>>)}),
     Directory({})}

ConcTexts == {<<"a", " ", "b">>, <<"b", " ", "A">>}

Domains == {"agric", "health", "x"}

Languages == {"twi", "ak", "fra", "zzz"}

(***************************************************************************)
(* The manager and its callers                                             *)
(***************************************************************************)
IdleCall ==
    [pc |-> "idle", text |-> <<>>, domain |-> "", language |-> "", error |-> <<>>,
     preprocessed |-> <<>>, tagged |-> <<>>, replacements |-> <<>>,
     translated |-> <<>>, final |-> <<>>]

\* __init__ up to the call of _load_terminologies, on one of dirs, with callers
InitWith(dirs, callers) ==
    /\ dir \in dirs
    /\ status = "new"
    /\ load_error = <<>>
    /\ terms_by_domain_lang = <<>>
    /\ domains_languages = {}
    /\ calls = [c \in callers |-> IdleCall]

\* _load_terminologies, which ends the constructor
Load ==
    /\ status = "new"
    /\ \E listing \in Listings(dir.files) :
          LET m == _load_terminologies(dir.exists, listing)
          IN /\ status' = IF m.failed THEN "failed" ELSE "loaded"
             /\ load_error' = m.error
             /\ terms_by_domain_lang' = m.terms_by_domain_lang
             /\ domains_languages' = m.domains_languages
    /\ UNCHANGED <<dir, calls>>

\* a lookup that subscripts the defaultdict: a missing key is inserted with an
\* empty dict
IndexAfterSubscript(index, domain, language) ==
    IF DictHas(index, <<domain, language>>) THEN index
    ELSE DictPut(index, <<domain, language>>, <<>>)

\* what a lookup leaves of self.terms_by_domain_lang: the membership test and
\* the iteration over items() read the defaultdict and insert nothing
IndexAfterLookup(index, domain, language) == index

\* caller c calls preprocess_text
Preprocess(c, texts, domains, languages) ==
    /\ status = "loaded"
    /\ calls[c].pc = "idle"
    /\ \E text \in texts, domain \in domains, language \in languages :
          LET r == preprocess_text(terms_by_domain_lang, domains_languages,
                                   text, domain, language)
          IN /\ calls' = [calls EXCEPT ![c] =
                    [@ EXCEPT !.pc = IF r.error = NoError THEN "preprocessed" ELSE "failed",
                              !.text = text, !.domain = domain, !.language = language,
                              !.error = r.error, !.preprocessed = r.text,
                              !.tagged = r.tagged, !.replacements = r.replacements]]
             /\ terms_by_domain_lang' =
                    IndexAfterLookup(terms_by_domain_lang, domain, language)
    /\ UNCHANGED <<dir, status, load_error, domains_languages>>

\* caller c calls postprocess_text with the text the translator returned, which
\* is the placeholder text unchanged or one of outputs, and with its own map
Postprocess(c, outputs) ==
    /\ calls[c].pc = "preprocessed"
    /\ \E translated \in {calls[c].preprocessed} \cup outputs :
          calls' = [calls EXCEPT ![c] =
              [@ EXCEPT !.pc = "done", !.translated = translated,
                        !.final = postprocess_text(translated, calls[c].replacements)]]
    /\ UNCHANGED <<dir, status, load_error, terms_by_domain_lang, domains_languages>>

\* one caller, every short text, on the engine's directories
Init == InitWith(ScenarioDirs, {1})

Next ==
    \/ Load
    \/ Preprocess(1, Texts, {"agric"}, {"twi", "ak"})
    \/ Postprocess(1, {})

Spec == Init /\ [][Next]_vars

\* the loader alone, on every directory of LoadDirs
InitLoad == InitWith(LoadDirs, {1})

NextLoad == Load

SpecLoad == InitLoad /\ [][NextLoad]_vars

\* several callers on one manager
InitConc == InitWith(ConcDirs, 1..MaxCallers)

NextConc ==
    \/ Load
    \/ \E c \in 1..MaxCallers : Preprocess(c, ConcTexts, Domains, Languages)
    \/ \E c \in 1..MaxCallers : Postprocess(c, {})

SpecConc == InitConc /\ [][NextConc]_vars

(***************************************************************************)
(* Properties                                                              *)
(***************************************************************************)
Callers == DOMAIN calls

\* the pairs that are keys of the loaded index
LoadedPairs == {terms_by_domain_lang[i].key : i \in 1..Len(terms_by_domain_lang)}

\* C5: diagnostic precision of preprocess_text.  A call whose resolved term set
\* is empty fails and returns no text, with the unknown-domain error listing
\* the known domains exactly when the domain is in no loaded pair, and
\* otherwise with the no-terminology error naming the domain and the languages
\* loaded for it; a call whose resolved term set is not empty does not fail.
C5_DiagnosticPrecision ==
    \A c \in Callers :
        calls[c].pc # "idle" =>
            LET d == calls[c].domain
                l == calls[c].language
                resolved == get_terms_for_domain_lang(terms_by_domain_lang, d, l)
                known == {p \in LoadedPairs : p[1] = d}
            IN IF resolved = <<>>
               THEN /\ calls[c].pc = "failed"
                    /\ calls[c].preprocessed = <<>>
                    /\ calls[c].replacements = <<>>
                    /\ Len(calls[c].error) = 1
                    /\ calls[c].error[1].domain = d
                    /\ IF known = {}
                       THEN /\ calls[c].error[1].kind = "UnknownDomain"
                            /\ calls[c].error[1].available = {p[1] : p \in LoadedPairs}
                       ELSE /\ calls[c].error[1].kind = "NoTerminologyForLanguage"
                            /\ calls[c].error[1].available = {p[2] : p \in known}
               ELSE /\ calls[c].pc # "failed"
                    /\ calls[c].error = NoError

\* both errors raised on one manager that holds two domains
C5_Witness ==
    /\ Cardinality({p[1] : p \in LoadedPairs}) = 2
    /\ calls[1].pc = "failed" /\ calls[1].error[1].kind = "UnknownDomain"
    /\ calls[2].pc = "failed" /\ calls[2].error[1].kind = "NoTerminologyForLanguage"
    /\ calls[2].error[1].available # {}

\* what a round-trip on its own returns for the request of call r on the index:
\* r with the results recomputed from its inputs
AloneCall(r, index, dls) ==
    LET pre == preprocess_text(index, dls, r.text, r.domain, r.language)
        went == r.pc = "done"
    IN IF r.pc = "idle" THEN IdleCall
       ELSE [pc |-> IF pre.error # NoError THEN "failed"
                    ELSE IF went THEN "done" ELSE "preprocessed",
             text |-> r.text, domain |-> r.domain, language |-> r.language,
             error |-> pre.error, preprocessed |-> pre.text, tagged |-> pre.tagged,
             replacements |-> pre.replacements,
             translated |-> IF went THEN pre.text ELSE <<>>,
             final |-> IF went THEN postprocess_text(pre.text, pre.replacements)
                       ELSE <<>>]

\* C10: non-interference of round-trips.  Once load has completed, no call of
\* preprocess_text or postprocess_text changes terms_by_domain_lang or
\* domains_languages, and after every step of any interleaving each caller
\* holds the placeholder text, replacement map and final text that its
\* round-trip returns when it runs alone.
C10_NonInterference ==
    [][status = "loaded" =>
          /\ terms_by_domain_lang' = terms_by_domain_lang
          /\ domains_languages' = domains_languages
          /\ \A c \in Callers :
                calls'[c] = AloneCall(calls'[c], terms_by_domain_lang, domains_languages)]_vars

\* two round-trips in flight at once, on different texts, both with matches
C10_Witness ==
    /\ calls[1].pc = "preprocessed" /\ calls[2].pc = "preprocessed"
    /\ calls[1].text # calls[2].text
    /\ calls[1].replacements # <<>> /\ calls[2].replacements # <<>>

\* the file is named '<domain>_terms_<language>.csv'
IsNamed(name, d, l) == name = <<d, "_terms_", l, ".csv">>

IsSource(file) == \E d \in Domains, l \in Languages : IsNamed(file.name, d, l)

\* no value of the row is missing
WellFormed(row) == row.id # <<>> /\ row.term # <<>> /\ row.translation # <<>>

\* the lowercased, trimmed term text of a well-formed row
TermText(row) == Strip(Lower(row.term[1]))

\* terms holds one entry per distinct term text of rows, keyed by that text and
\* holding the id and translation of the last row that has it
HoldsRows(terms, rows) ==
    /\ DictKeys(terms) = {TermText(rows[i]) : i \in 1..Len(rows)}
    /\ Len(terms) = Cardinality(DictKeys(terms))
    /\ \A n \in 1..Len(terms) :
          LET same == {i \in 1..Len(rows) : TermText(rows[i]) = terms[n].key}
              last == CHOOSE i \in same : \A j \in same : j <= i
          IN /\ terms[n].value.term = terms[n].key
             /\ terms[n].value.id = rows[last].id[1]
             /\ terms[n].value.translation = rows[last].translation[1]

C9_MalformedRowFails ==
    (\E f \in dir.files : IsSource(f) /\ \E i \in 1..Len(f.rows) : ~WellFormed(f.rows[i])) =>
        /\ status # "loaded"
        /\ status = "failed" =>
              /\ Len(load_error) = 1
              /\ load_error[1].source # <<>>
              /\ load_error[1].row # <<>>

\* C6: language-code resolution.  On a loaded index, for every domain and every
\* 3-letter code c3 that normalizes to the 2-letter code c2, the lookups of
\* (domain, c2) and of (domain, c3) return the same terms.
TermSet(terms) ==
    {<<terms[i].key, terms[i].value.id, terms[i].value.translation>> : i \in 1..Len(terms)}

C6_SameTermsForBothCodes ==
    status = "loaded" =>
        \A d \in Domains, c3 \in Languages, c2 \in Languages :
            (Len(c3) = 3 /\ Len(c2) = 2 /\ convert_lang_code(c3) = c2) =>
                TermSet(get_terms_for_domain_lang(terms_by_domain_lang, d, c2))
                    = TermSet(get_terms_for_domain_lang(terms_by_domain_lang, d, c3))

\* the calls that got a placeholder text back
InFlight(c) == calls[c].pc \in {"preprocessed", "done"}

\* the terms the call of c was served with, in substitution order
TermsOf(c) ==
    sorted_terms(DictValues(get_terms_for_domain_lang(terms_by_domain_lang,
                                                      calls[c].domain, calls[c].language)))

\* text[i..] starts with t, ignoring letter case
EqualsIgnoringCase(text, i, t) ==
    /\ i + Len(t) - 1 <= Len(text)
    /\ \A n \in 1..Len(t) : LowerChar(text[i + n - 1]) = LowerChar(t[n])

\* text[i..j] has no word character next to it on either side
NotAdjacentToWord(text, i, j) ==
    /\ ~(i > 1 /\ IsWordChar(text[i - 1]))
    /\ ~(j < Len(text) /\ IsWordChar(text[j + 1]))

\* t occurs as a whole word in text at position i
WholeWordAt(text, t, i) ==
    /\ Len(t) > 0
    /\ EqualsIgnoringCase(text, i, t)
    /\ NotAdjacentToWord(text, i, i + Len(t) - 1)

\* in the returned text the input span i..j is replaced by the placeholder of
\* the term of rank k with this id: the characters that stand for the span are
\* exactly one copy of the placeholder, written for that term and that span
ReplacedBy(tagged, i, j, k, id) ==
    LET ph == Placeholder(id)
    IN \E p \in 1..Len(tagged) :
          /\ p + Len(ph) - 1 <= Len(tagged)
          /\ \A n \in 1..Len(ph) :
                tagged[p + n - 1] = [ch |-> ph[n], from |-> i..j, by |-> k]
          /\ \A q \in 1..Len(tagged) :
                tagged[q].from \cap (i..j) # {} => q \in p..(p + Len(ph) - 1)

\* the input text with the occurrences the passes match, in substitution
\* order, marked as opaque non-word tokens of their term
RECURSIVE MarkAll(_, _, _)
MarkAll(ts, terms, k) ==
    IF k > Len(terms) THEN ts
    ELSE MarkAll(RegexSub(ts, terms[k].term, <<"#">>, k), terms, k + 1)

RECURSIVE Flatten(_, _)
Flatten(ts, terms) ==
    IF ts = <<>> THEN <<>>
    ELSE (IF Head(ts).by = 0 THEN <<Head(ts).ch>> ELSE terms[Head(ts).by].translation)
             \o Flatten(Tail(ts), terms)

\* C1: round-trip.  postprocess_text on the unchanged placeholder text and map
\* of preprocess_text yields the input text with every matched term occurrence
\* replaced by that term's translation and every other character unchanged.
C1_RoundTrip ==
    \A c \in Callers :
        (calls[c].pc = "done" /\ calls[c].translated = calls[c].preprocessed) =>
            calls[c].final = Flatten(MarkAll(Tagged(calls[c].text), TermsOf(c), 1), TermsOf(c))

\* C2: longest-match precedence.  For terms A and B of the bucket where B
\* occurs as a whole word inside A, every whole-word occurrence of A in the
\* input is replaced by A's placeholder and no character of B's placeholder
\* stands for any part of that occurrence.
C2_LongestMatchPrecedence ==
    \A c \in Callers :
        InFlight(c) =>
            LET terms == TermsOf(c)
                text == calls[c].text
                tagged == calls[c].tagged
            IN \A a, b \in 1..Len(terms) :
                  (/\ terms[a].term # terms[b].term
                   /\ \E n \in 1..Len(terms[a].term) :
                         WholeWordAt(terms[a].term, terms[b].term, n)) =>
                      \A i \in 1..Len(text) :
                          WholeWordAt(text, terms[a].term, i) =>
                              LET j == i + Len(terms[a].term) - 1
                              IN /\ ReplacedBy(tagged, i, j, a, terms[a].id)
                                 /\ \A q \in 1..Len(tagged) :
                                       tagged[q].by = b => tagged[q].from \cap (i..j) = {}

\* the span i..j of text meets no other occurrence of a term of the bucket
StandsAlone(text, terms, k, i, j) ==
    \A k2 \in 1..Len(terms), i2 \in 1..Len(text) :
        (/\ <<k2, i2>> # <<k, i>>
         /\ Len(terms[k2].term) > 0
         /\ EqualsIgnoringCase(text, i2, terms[k2].term)) =>
            (i2 > j \/ i2 + Len(terms[k2].term) - 1 < i)

\* C3: matching policy.  A span of the input is replaced by a term's
\* placeholder only if it equals the term text ignoring letter case, and such
\* a span (one that meets no other term occurrence) is replaced if and only if
\* it has no word character next to it on either side.
C3_MatchingPolicy ==
    \A c \in Callers :
        InFlight(c) =>
            LET terms == TermsOf(c)
                text == calls[c].text
                tagged == calls[c].tagged
            IN \A k \in 1..Len(terms) : \A i \in 1..Len(text), j \in 1..Len(text) :
                  LET t == terms[k].term
                      occurs == j - i + 1 = Len(t) /\ EqualsIgnoringCase(text, i, t)
                      replaced == ReplacedBy(tagged, i, j, k, terms[k].id)
                  IN /\ ~occurs => ~replaced
                     /\ (occurs /\ StandsAlone(text, terms, k, i, j)) =>
                            (replaced <=> NotAdjacentToWord(text, i, j))

\* the ranks of the terms that matched: those with placeholder characters in
\* the returned text
Matched(tagged) == {tagged[q].by : q \in 1..Len(tagged)} \ {0}

\* C4: the replacement map holds exactly one entry per distinct term that
\* matched, keyed by that term's placeholder and mapped to that Term, and
\* after postprocess_text none of its placeholders is left in the text.
C4_OneEntryPerMatchedTerm ==
    \A c \in Callers :
        InFlight(c) =>
            LET terms == TermsOf(c)
                matched == Matched(calls[c].tagged)
                map == calls[c].replacements
            IN /\ Len(map) = Cardinality(matched)
               /\ \A k \in matched :
                     /\ DictHas(map, Placeholder(terms[k].id))
                     /\ DictGet(map, Placeholder(terms[k].id)) = terms[k]
               /\ (calls[c].pc = "done" /\ calls[c].translated = calls[c].preprocessed) =>
                     \A n \in 1..Len(map), i \in 1..Len(calls[c].final) :
                         ~OccursAt(calls[c].final, map[n].key, i)

\* every literal occurrence in text of a placeholder of the map replaced by its
\* translation, scanning from position i
RECURSIVE ReplaceEach(_, _, _)
ReplaceEach(text, map, i) ==
    IF i > Len(text) THEN <<>>
    ELSE LET hits == {n \in 1..Len(map) : OccursAt(text, map[n].key, i)}
         IN IF hits = {}
            THEN <<text[i]>> \o ReplaceEach(text, map, i + 1)
            ELSE LET n == CHOOSE m \in hits : TRUE
                 IN map[n].value.translation
                        \o ReplaceEach(text, map, i + Len(map[n].key))

\* the orders in which the entries of a map can be processed
Orders(map) ==
    {[n \in 1..Len(map) |-> map[o[n]]] :
        o \in {f \in [1..Len(map) -> 1..Len(map)] :
                  \A x, y \in 1..Len(map) : f[x] = f[y] => x = y}}

\* C8: postprocess_text returns the text with every literal occurrence of each
\* placeholder of the map replaced by its translation, and processing the
\* placeholders in any other order gives the same result.
C8_PostprocessOrderFree ==
    \A c \in Callers :
        calls[c].pc = "done" =>
            /\ calls[c].final = ReplaceEach(calls[c].translated, calls[c].replacements, 1)
            /\ \A entries \in Orders(calls[c].replacements) :
                  ReplaceAll(calls[c].translated, entries) = calls[c].final

\* C11: unique ids.  In every loaded index no two Terms of one (domain,
\* language) bucket have the same id, so no two terms of a bucket share a
\* placeholder.
C11_UniqueIdsInBucket ==
    status = "loaded" =>
        \A n \in 1..Len(terms_by_domain_lang) :
            LET terms == terms_by_domain_lang[n].value
            IN \A i, j \in 1..Len(terms) :
                  i # j => /\ terms[i].value.id # terms[j].value.id
                           /\ Placeholder(terms[i].value.id) # Placeholder(terms[j].value.id)

(***************************************************************************)
(* postprocess_text called on its own, on any short text and any map of    *)
(* the loaded Terms                                                        *)
(***************************************************************************)
PostAlphabet == {"<", "1", "2", ">", "a"}

PostTexts == StringsUpTo(PostAlphabet, MaxTextLen)

\* replacements[f"<{term_obj.id}>"] = term_obj for the Terms of terms, in order
RECURSIVE MapOf(_, _)
MapOf(terms, map) ==
    IF terms = <<>> THEN map
    ELSE MapOf(Tail(terms), DictPut(map, Placeholder(Head(terms).id), Head(terms)))

\* the Terms of the loaded index
LoadedTerms(index) ==
    UNION {{index[n].value[i].value : i \in 1..Len(index[n].value)} : n \in 1..Len(index)}

\* the maps over at most two of the Terms of the loaded index
MapsOf(index) ==
    {MapOf(terms, <<>>) : terms \in SeqsUpTo(LoadedTerms(index), 2)}

\* a call of postprocess_text(text, replacements) by c
PostprocessText(c, texts) ==
    /\ status = "loaded"
    /\ calls[c].pc = "idle"
    /\ \E text \in texts, replacements \in MapsOf(terms_by_domain_lang) :
          calls' = [calls EXCEPT ![c] =
              [@ EXCEPT !.pc = "done", !.translated = text,
                        !.replacements = replacements,
                        !.final = postprocess_text(text, replacements)]]
    /\ UNCHANGED <<dir, status, load_error, terms_by_domain_lang, domains_languages>>

InitPost == InitWith(ScenarioDirs, {1})

NextPost ==
    \/ Load
    \/ PostprocessText(1, PostTexts)

SpecPost == InitPost /\ [][NextPost]_vars

\* s[i..j] is a bracket-id token: "<", one or more digits, ">"
IsBracketId(s, i, j) ==
    /\ 1 <= i /\ i + 2 <= j /\ j <= Len(s)
    /\ s[i] = "<" /\ s[j] = ">"
    /\ \A n \in (i + 1)..(j - 1) : s[n] \in Digits

\* the number of occurrences of token in s
Occurrences(s, token) == Cardinality({i \in 1..Len(s) : OccursAt(s, token, i)})

\* the map without its n-th entry
WithoutEntry(map, n) == SubSeq(map, 1, n - 1) \o SubSeq(map, n + 1, Len(map))

\* C12: postprocess_text on leftover and missing placeholders.  For every text
\* and every map it returns a text; a bracket-id token of the text whose
\* placeholder is not a key of the map is in the result as often as in the
\* text, and an entry of the map whose placeholder does not occur in the text
\* changes nothing: the result is the one of the map without that entry.
C12_LeftoverAndMissing ==
    \A c \in Callers :
        calls[c].pc = "done" =>
            LET text == calls[c].translated
                map == calls[c].replacements
                final == calls[c].final
            IN /\ \A i \in 1..Len(final) : Len(final[i]) = 1
               /\ \A i, j \in 1..Len(text) :
                     LET token == SubSeq(text, i, j)
                     IN (IsBracketId(text, i, j) /\ ~DictHas(map, token)) =>
                            Occurrences(final, token) >= Occurrences(text, token)
               /\ \A n \in 1..Len(map) :
                     Occurrences(text, map[n].key) = 0 =>
                         final = postprocess_text(text, WithoutEntry(map, n))

\* C12, the first two parts alone: a text is returned and leftover tokens stay
C12_LeftoverStays ==
    \A c \in Callers :
        calls[c].pc = "done" =>
            LET text == calls[c].translated
                map == calls[c].replacements
                final == calls[c].final
            IN /\ \A i \in 1..Len(final) : Len(final[i]) = 1
               /\ \A i, j \in 1..Len(text) :
                     LET token == SubSeq(text, i, j)
                     IN (IsBracketId(text, i, j) /\ ~DictHas(map, token)) =>
                            Occurrences(final, token) >= Occurrences(text, token)

\* s contains a bracket-id token
HasBracketId(s) == \E i, j \in 1..Len(s) : IsBracketId(s, i, j)

\* the character at q of tagged belongs to a whole placeholder ph that one
\* match of term number k inserted
InWholePlaceholder(tagged, q, ph, k) ==
    \E p \in 1..Len(tagged) :
        /\ p <= q /\ q <= p + Len(ph) - 1
        /\ p + Len(ph) - 1 <= Len(tagged)
        /\ \A n \in 1..Len(ph) :
              /\ tagged[p + n - 1].ch = ph[n]
              /\ tagged[p + n - 1].by = k
              /\ tagged[p + n - 1].from = tagged[q].from

\* C13: placeholder integrity.  In the text preprocess_text returns, every
\* character a term's substitution inserted is still part of the whole
\* placeholder of that term (no later term rewrote it), and for an input text
\* without bracket-id token every key of the returned map occurs literally in
\* the returned text.
C13_PlaceholderIntegrity ==
    \A c \in Callers :
        InFlight(c) =>
            LET terms == TermsOf(c)
                tagged == calls[c].tagged
                map == calls[c].replacements
            IN /\ \A q \in 1..Len(tagged) :
                     tagged[q].by # 0 =>
                         InWholePlaceholder(tagged, q,
                                            Placeholder(terms[tagged[q].by].id),
                                            tagged[q].by)
               /\ ~HasBracketId(calls[c].text) =>
                     \A n \in 1..Len(map) :
                         Occurrences(calls[c].preprocessed, map[n].key) > 0

====
